---- MODULE Spec2Model ----
(***************************************************************************)
(* Model of run-save-bb8.py: the script that launches the save-bb8 solver, *)
(* checks for and loads the two text files it leaves in output/, draws the *)
(* configuration space with the solution path on top and saves the figure  *)
(* as solution.png.  One action per statement of main(); the child process *)
(* and the file system are the environment.                                *)
(***************************************************************************)
EXTENDS Integers, Sequences, FiniteSets, TLC

(***************************************************************************)
(* Bounds of the model                                                     *)
(***************************************************************************)
\* most data lines (after the header) in a config-space file
MaxGridRows == 2
\* most lines in a solution-path file
MaxPathLines == 2

(***************************************************************************)
(* Constants of the script                                                 *)
(***************************************************************************)
SAVE_BB8 == "build/bin/save-bb8"
CONFIG_SPACE_FILE == "output/config-space.txt"
SOLUTION_PATH_FILE == "output/solution-path.txt"
IMAGE_FILE == "solution.png"
\* np.loadtxt(CONFIG_SPACE_FILE, delimiter=' ', skiprows=3)
SkipRows == 3
\* np.loadtxt(SOLUTION_PATH_FILE, delimiter=' '): skiprows defaults to 0
NoSkip == 0

(***************************************************************************)
(* Inputs: command lines, and the text files the solver may leave behind.  *)
(* A text file is a sequence of lines, a line the sequence of its          *)
(* space-separated fields, a field a string.                               *)
(***************************************************************************)
\* the positional arguments, sys.argv[1..]: rows, cols, robot radius, obstacles
ArgvChoices ==
  { <<"2", "2", "1", "cfgA">>,
    <<"1", "2", "1", "cfgA">>,
    <<"abc", "2", "1", "cfgA">>,
    <<"2", "0", "1", "cfgA">>,
    <<"2", "2", "-1", "cfgA">>,
    <<"2", "2", "1">>,
    <<"2", "2", "1", "cfgA", "extra">> }

HeaderLine == <<"#", "header">>
GridLineChoices == { <<"0", "1">>, <<"1">>, <<"0", "x">> }
PathLineChoices == { <<"1", "1">>, <<"2", "3">>, <<"3">>, <<"1", "2", "3">> }

SeqsUpTo(S, n) == UNION { [1..k -> S] : k \in 0..n }

Absent == [exists |-> FALSE, lines |-> <<>>]
TextFile(ls) == [exists |-> TRUE, lines |-> ls]

Header == [i \in 1..SkipRows |-> HeaderLine]
GridFiles == { TextFile(Header \o b) : b \in SeqsUpTo(GridLineChoices, MaxGridRows) }
PathFiles == { TextFile(b) : b \in SeqsUpTo(PathLineChoices, MaxPathLines) }

\* files a previous run may have left in output/
StaleGrid == TextFile(Header \o << <<"0", "1">>, <<"1", "0">> >>)
StalePath == TextFile(<< <<"1", "1">>, <<"2", "3">> >>)

(***************************************************************************)
(* numpy: float(), loadtxt, ndarray shape, size and indexing               *)
(***************************************************************************)
Digits == { "0", "1", "2", "3" }
IsFloat(tok) == tok \in Digits
Float(tok) ==
  CASE tok = "0" -> 0
    [] tok = "1" -> 1
    [] tok = "2" -> 2
    [] tok = "3" -> 3

\* an ndarray: its shape, and its values kept as the rows they were read from
Unbound == [shape |-> <<-1>>, rows |-> <<>>]
EmptyArray == [shape |-> <<0>>, rows |-> <<>>]

Drop(s, n) == IF Len(s) <= n THEN <<>> ELSE SubSeq(s, n + 1, Len(s))
IsDataLine(l) == l # <<>>
\* ndmin=0: axes of length 1 are squeezed away
Squeeze(shape) == SelectSeq(shape, LAMBDA d : d # 1)

NDim(a) == Len(a.shape)
RECURSIVE Prod(_)
Prod(s) == IF s = <<>> THEN 1 ELSE Head(s) * Prod(Tail(s))
Size(a) == Prod(a.shape)

\* np.loadtxt(file, delimiter=' ', skiprows=skip)
LoadTxt(file, skip) ==
  IF ~file.exists
  THEN [err |-> "FileNotFoundError", arr |-> Unbound]
  ELSE LET data == SelectSeq(Drop(file.lines, skip), IsDataLine)
           n == Len(data)
       IN  IF \/ \E i \in 1..n : \E j \in 1..Len(data[i]) : ~IsFloat(data[i][j])
              \/ \E i \in 1..n : Len(data[i]) # Len(data[1])
           THEN [err |-> "ValueError", arr |-> Unbound]
           ELSE IF n = 0
           THEN [err |-> "none", arr |-> EmptyArray]
           ELSE [err |-> "none",
                 arr |-> [shape |-> Squeeze(<<n, Len(data[1])>>),
                          rows |-> [i \in 1..n |->
                                     [j \in 1..Len(data[i]) |-> Float(data[i][j])]]]]

\* a[:, c] on an ndarray: needs two axes and column c (0-based) inside axis 1
CanTakeColumn(a, c) == NDim(a) >= 2 /\ c < a.shape[2]
Column(a, c) == [i \in 1..a.shape[1] |-> a.rows[i][c + 1]]

(***************************************************************************)
(* State                                                                   *)
(***************************************************************************)
VARIABLES
  argv,           \* sys.argv[1..]
  exeOk,          \* whether SAVE_BB8 exists and can be executed
  pc,             \* the statement main() is at, "done" or "failed"
  cmd,            \* the command line built on line 46
  solver,         \* the child process: "notStarted", "running", "exited"
  returncode,     \* the child's exit code once it has exited
  captured,       \* the child's stdout and stderr, merged
  launches,       \* how many times the child has been started
  gridFile,       \* output/config-space.txt
  pathFile,       \* output/solution-path.txt
  config_space,   \* the array read from the grid file
  solution_path,  \* the array read from the path file
  fig,            \* the figure: the mesh drawn on its axes and its lines
  image,          \* solution.png
  printed,        \* what has been written to stdout
  error,          \* the exception that ended the run
  trace           \* the statements executed so far, in order

vars == <<argv, exeOk, pc, cmd, solver, returncode, captured, launches, gridFile, pathFile,
          config_space, solution_path, fig, image, printed, error, trace>>

NoError == [type |-> "none", at |-> "none", args |-> <<>>]
Raise(type, at, args) == [type |-> type, at |-> at, args |-> args]

NoFigure == [axes |-> FALSE, mesh |-> Unbound, lines |-> <<>>]
NoImage == [state |-> "absent", mesh |-> Unbound, lines |-> <<>>]
OldImage == [state |-> "old", mesh |-> Unbound, lines |-> <<>>]

Init ==
  /\ argv \in ArgvChoices
  /\ exeOk \in BOOLEAN
  /\ pc = "args"
  /\ cmd = <<>>
  /\ solver = "notStarted"
  /\ returncode = -1
  /\ captured = ""
  /\ launches = 0
  /\ gridFile \in {Absent, StaleGrid}
  /\ pathFile \in {Absent, StalePath}
  /\ config_space = Unbound
  /\ solution_path = Unbound
  /\ fig = NoFigure
  /\ image \in {NoImage, OldImage}
  /\ printed = <<>>
  /\ error = NoError
  /\ trace = <<>>

Fail(e) == pc' = "failed" /\ error' = e
Goto(l) == pc' = l /\ error' = error
Did(step) == trace' = Append(trace, step)

(***************************************************************************)
(* main(), lines 40-46: read the four arguments and build the command      *)
(***************************************************************************)
Cmd(a) == <<SAVE_BB8, a[1], a[2], a[3], a[4]>>

\* what a validator of the parameters would reject: rows or cols not a number or
\* not positive, robot_radius not a number or negative
IsNumber(s) == s \in {"-1", "0", "1", "2", "3"}
Number(s) == IF s = "-1" THEN -1 ELSE Float(s)
ParamsInvalid(a) ==
  /\ Len(a) >= 4
  /\ \/ ~IsNumber(a[1]) \/ ~IsNumber(a[2]) \/ ~IsNumber(a[3])
     \/ Number(a[1]) <= 0 \/ Number(a[2]) <= 0 \/ Number(a[3]) < 0

\* ParseArgs as it would be with the parameters validated before the launch
ParseArgsValidating ==
  /\ pc = "args"
  /\ Did("argv")
  /\ IF Len(argv) < 4
     THEN /\ Fail(Raise("IndexError", "argv", <<"list index out of range">>))
          /\ cmd' = cmd
     ELSE IF ParamsInvalid(argv)
     THEN /\ Fail(Raise("InvalidParameterError", "argv", argv))
          /\ cmd' = cmd
     ELSE /\ Goto("invoke")
          /\ cmd' = Cmd(argv)
  /\ UNCHANGED <<argv, exeOk, solver, returncode, captured, launches, gridFile,
                 pathFile, config_space, solution_path, fig, image, printed>>

ParseArgs ==
  /\ pc = "args"
  /\ Did("argv")
  /\ IF Len(argv) < 4
     THEN /\ Fail(Raise("IndexError", "argv", <<"list index out of range">>))
          /\ cmd' = cmd
     ELSE /\ Goto("invoke")
          /\ cmd' = Cmd(argv)
  /\ UNCHANGED <<argv, exeOk, solver, returncode, captured, launches, gridFile,
                 pathFile, config_space, solution_path, fig, image, printed>>

(***************************************************************************)
(* lines 47-54: sp.check_output(cmd, stderr=sp.STDOUT, ...)                *)
(***************************************************************************)
Warning(c, rc, out) ==
  [text |-> "WARNING: running save-bb8 had issues:", cmd |-> c,
   returncode |-> rc, output |-> out]

\* OnLaunchError with a bare except: any failure of the call becomes the warning
OnLaunchErrorCaught ==
  /\ Goto("checkGrid")
  /\ printed' = Append(printed, Warning(cmd, returncode, captured))

\* an exception that is no CalledProcessError passes the except clause
OnLaunchError ==
  /\ Fail(Raise("OSError", "launch", cmd))
  /\ printed' = printed

\* Popen: start the child, or fail when the executable cannot be run
Launch ==
  /\ pc = "invoke"
  /\ Did("launch")
  /\ IF exeOk
     THEN /\ solver' = "running"
          /\ launches' = launches + 1
          /\ Goto("wait")
          /\ printed' = printed
     ELSE /\ OnLaunchError
          /\ UNCHANGED <<solver, launches>>
  /\ UNCHANGED <<argv, exeOk, cmd, returncode, captured, gridFile, pathFile,
                 config_space, solution_path, fig, image>>

\* the child: it ends with some exit code, having written, rewritten, removed
\* or left alone each of its two output files
ExitCodes == {0, 1}
OutputChoices == {"stdout and stderr"}

SolverTerminates ==
  /\ solver = "running"
  /\ solver' = "exited"
  /\ returncode' \in ExitCodes
  /\ captured' \in OutputChoices
  /\ gridFile' \in GridFiles \cup {Absent, gridFile}
  /\ pathFile' \in PathFiles \cup {Absent, pathFile}
  /\ Did("exit")
  /\ UNCHANGED <<argv, exeOk, pc, cmd, launches, config_space, solution_path,
                 fig, image, printed, error>>

\* ChildTerminated for a call that starts the child and does not wait for it
ChildStarted == solver # "notStarted"

\* check_output returns, or raises CalledProcessError, only once the child is gone
ChildTerminated == solver = "exited"

CheckOutputReturn ==
  /\ pc = "wait"
  /\ ChildTerminated
  /\ Did("returned")
  /\ printed' = IF returncode # 0
                THEN Append(printed, Warning(cmd, returncode, captured))
                ELSE printed
  /\ Goto("checkGrid")
  /\ UNCHANGED <<argv, exeOk, cmd, solver, returncode, captured, launches,
                 gridFile, pathFile, config_space, solution_path, fig, image>>

(***************************************************************************)
(* lines 56-60: the two files must be there                                *)
(***************************************************************************)
\* GridFileMissing looked at only when the solver reported a failure
GridFileMissingAfterFailure == ~gridFile.exists /\ returncode # 0

GridFileMissing == ~gridFile.exists
PathFileMissing == ~pathFile.exists

CheckGrid ==
  /\ pc = "checkGrid"
  /\ Did("checkGrid")
  /\ IF GridFileMissing
     THEN Fail(Raise("Exception", "checkGrid",
                     <<"Config space file not found: ", CONFIG_SPACE_FILE>>))
     ELSE Goto("checkPath")
  /\ UNCHANGED <<argv, exeOk, cmd, solver, returncode, captured, launches,
                 gridFile, pathFile, config_space, solution_path, fig, image,
                 printed>>

CheckPath ==
  /\ pc = "checkPath"
  /\ Did("checkPath")
  /\ IF PathFileMissing
     THEN Fail(Raise("Exception", "checkPath",
                     <<"Solution path file found: ", SOLUTION_PATH_FILE>>))
     ELSE Goto("loadGrid")
  /\ UNCHANGED <<argv, exeOk, cmd, solver, returncode, captured, launches,
                 gridFile, pathFile, config_space, solution_path, fig, image,
                 printed>>

(***************************************************************************)
(* lines 62-64: read the two files                                         *)
(***************************************************************************)
LoadGrid ==
  /\ pc = "loadGrid"
  /\ Did("loadGrid")
  /\ LET r == LoadTxt(gridFile, SkipRows)
     IN  IF r.err # "none"
         THEN /\ Fail(Raise(r.err, "loadGrid", <<CONFIG_SPACE_FILE>>))
              /\ config_space' = config_space
         ELSE /\ Goto("loadPath")
              /\ config_space' = r.arr
  /\ UNCHANGED <<argv, exeOk, cmd, solver, returncode, captured, launches,
                 gridFile, pathFile, solution_path, fig, image, printed>>

LoadPath ==
  /\ pc = "loadPath"
  /\ Did("loadPath")
  /\ LET r == LoadTxt(pathFile, NoSkip)
     IN  IF r.err # "none"
         THEN /\ Fail(Raise(r.err, "loadPath", <<SOLUTION_PATH_FILE>>))
              /\ solution_path' = solution_path
         ELSE /\ Goto("pcolormesh")
              /\ solution_path' = r.arr
  /\ UNCHANGED <<argv, exeOk, cmd, solver, returncode, captured, launches,
                 gridFile, pathFile, config_space, fig, image, printed>>

(***************************************************************************)
(* lines 66-78: draw, show and save                                        *)
(***************************************************************************)
\* ax.pcolormesh(C) unpacks C.shape into rows and columns: C must have two axes
CanMesh(a) == NDim(a) = 2

SavedFigure(f) == [state |-> "new", mesh |-> f.mesh, lines |-> f.lines]

\* DrawHeatmap with the figure saved right after the mesh is drawn
DrawHeatmapAndSave ==
  /\ pc = "pcolormesh"
  /\ Did("pcolormesh")
  /\ IF CanMesh(config_space)
     THEN /\ fig' = [fig EXCEPT !.axes = TRUE, !.mesh = config_space]
          /\ image' = SavedFigure(fig')
          /\ Goto("plot")
     ELSE /\ fig' = [fig EXCEPT !.axes = TRUE]
          /\ image' = image
          /\ Fail(Raise("ValueError", "pcolormesh", <<"not enough values to unpack">>))
  /\ UNCHANGED <<argv, exeOk, cmd, solver, returncode, captured, launches,
                 gridFile, pathFile, config_space, solution_path, printed>>

\* fig, ax = plt.subplots(1); ax.pcolormesh(config_space, cmap='jet')
DrawHeatmap ==
  /\ pc = "pcolormesh"
  /\ Did("pcolormesh")
  /\ IF CanMesh(config_space)
     THEN /\ fig' = [fig EXCEPT !.axes = TRUE, !.mesh = config_space]
          /\ Goto("plot")
     ELSE /\ fig' = [fig EXCEPT !.axes = TRUE]
          /\ Fail(Raise("ValueError", "pcolormesh", <<"not enough values to unpack">>))
  /\ UNCHANGED <<argv, exeOk, cmd, solver, returncode, captured, launches,
                 gridFile, pathFile, config_space, solution_path, image, printed>>

\* the Line2D plt.plot(x, y) adds: one vertex per element, in order
Line2D(x, y) == [i \in 1..Len(x) |-> <<x[i], y[i]>>]

\* if solution_path.size != 0: x = [:, 0]; y = [:, 1]; plt.plot(x, y, ...)
PlotPath ==
  /\ pc = "plot"
  /\ IF Size(solution_path) # 0
     THEN /\ Did("plot")
          /\ IF CanTakeColumn(solution_path, 0) /\ CanTakeColumn(solution_path, 1)
             THEN /\ fig' = [fig EXCEPT !.lines =
                               Append(@, Line2D(Column(solution_path, 0),
                                                Column(solution_path, 1)))]
                  /\ Goto("show")
             ELSE /\ fig' = fig
                  /\ Fail(Raise("IndexError", "plot", <<"too many indices for array">>))
     ELSE /\ trace' = trace
          /\ fig' = fig
          /\ Goto("show")
  /\ UNCHANGED <<argv, exeOk, cmd, solver, returncode, captured, launches,
                 gridFile, pathFile, config_space, solution_path, image, printed>>

\* plt.show()
Show ==
  /\ pc = "show"
  /\ Did("show")
  /\ Goto("save")
  /\ UNCHANGED <<argv, exeOk, cmd, solver, returncode, captured, launches,
                 gridFile, pathFile, config_space, solution_path, fig, image,
                 printed>>

\* fig.savefig('solution.png')
SaveFig ==
  /\ pc = "save"
  /\ Did("savefig")
  /\ image' = SavedFigure(fig)
  /\ Goto("done")
  /\ UNCHANGED <<argv, exeOk, cmd, solver, returncode, captured, launches,
                 gridFile, pathFile, config_space, solution_path, fig, printed>>

Next ==
  \/ ParseArgs
  \/ Launch
  \/ SolverTerminates
  \/ CheckOutputReturn
  \/ CheckGrid
  \/ CheckPath
  \/ LoadGrid
  \/ LoadPath
  \/ DrawHeatmap
  \/ PlotPath
  \/ Show
  \/ SaveFig

Spec == Init /\ [][Next]_vars

(***************************************************************************)
(* Properties                                                              *)
(***************************************************************************)
Terminal == pc \in {"done", "failed"}
InTrace(step) == \E i \in 1..Len(trace) : trace[i] = step
\* the solver has exited and check_output has returned or raised
Returned == solver = "exited" /\ pc # "wait"
NothingRead == config_space = Unbound /\ solution_path = Unbound
NothingRendered ==
  /\ ~InTrace("pcolormesh") /\ ~InTrace("plot") /\ ~InTrace("savefig")
  /\ fig = NoFigure
  /\ image.state # "new"

\* 3 header lines, then rows lines of cols numbers each, as requested in a
WellFormedGrid(f, a) ==
  /\ f.exists
  /\ Len(a) >= 4 /\ IsNumber(a[1]) /\ IsNumber(a[2])
  /\ Len(f.lines) = SkipRows + Number(a[1])
  /\ \A i \in (SkipRows + 1)..Len(f.lines) :
       /\ Len(f.lines[i]) = Number(a[2])
       /\ \A j \in 1..Len(f.lines[i]) : IsFloat(f.lines[i][j])
\* every line holds exactly two numbers
WellFormedPath(f) ==
  /\ f.exists
  /\ \A i \in 1..Len(f.lines) :
       Len(f.lines[i]) = 2 /\ IsFloat(f.lines[i][1]) /\ IsFloat(f.lines[i][2])
Vertices(f) == [i \in 1..Len(f.lines) |-> <<Float(f.lines[i][1]), Float(f.lines[i][2])>>]

\* C1: after a non-zero exit the run goes on with exactly one warning printed, which
\* carries the command, the exit code and the captured output; and with a
\* well-formed grid file and a well-formed path file it ends with the image saved.
C1_SolverFailureIsWarning ==
  (Returned /\ returncode # 0) =>
    /\ printed = <<Warning(Cmd(argv), returncode, captured)>>
    /\ error.at # "launch"
    /\ (Terminal /\ WellFormedGrid(gridFile, argv) /\ WellFormedPath(pathFile)
          => pc = "done" /\ image.state = "new")

\* C2: when the grid file is missing once the solver has exited, whatever the exit
\* code, the run ends at the grid check with an error naming the grid file's path;
\* nothing is read, nothing is drawn and no image is saved.
C2_MissingGridNeverRenders ==
  (Returned /\ ~gridFile.exists /\ pc # "checkGrid") =>
    /\ pc = "failed"
    /\ error = Raise("Exception", "checkGrid",
                     <<"Config space file not found: ", CONFIG_SPACE_FILE>>)
    /\ ~InTrace("checkPath") /\ ~InTrace("loadGrid") /\ ~InTrace("loadPath")
    /\ NothingRead
    /\ NothingRendered
C2_Witness ==
  /\ Returned /\ returncode = 0 /\ ~gridFile.exists /\ pathFile.exists
  /\ pc = "failed"

\* C3: with a well-formed grid, a run over an empty path file ends with an empty
\* path array, no overlay and the image saved, and a run over an absent path file
\* ends at the path check with nothing read and nothing drawn.
C3_EmptyPathIsNotMissingPath ==
  (Returned /\ Terminal /\ WellFormedGrid(gridFile, argv)) =>
    /\ pathFile = TextFile(<<>>) =>
         /\ pc = "done"
         /\ solution_path = EmptyArray
         /\ fig.lines = <<>>
         /\ image.state = "new" /\ image.lines = <<>>
    /\ ~pathFile.exists =>
         /\ pc = "failed" /\ error.at = "checkPath"
         /\ NothingRead
         /\ NothingRendered

\* C4: once the heatmap is drawn, a path file of n >= 1 lines of two numbers each
\* gives exactly one line with the n vertices in file order and the image is
\* saved; and a finished run has an overlay iff the path read is not empty.
C4_PathOverlayHasOneVertexPerLine ==
  (Terminal /\ fig.mesh # Unbound) =>
    /\ (WellFormedPath(pathFile) /\ Len(pathFile.lines) >= 1) =>
         /\ pc = "done"
         /\ fig.lines = <<Vertices(pathFile)>>
         /\ Len(fig.lines[1]) = Len(pathFile.lines)
         /\ image.state = "new" /\ image.lines = fig.lines
    /\ pc = "done" => (fig.lines # <<>> <=> Size(solution_path) # 0)

C6_GridHasRequestedShape ==
  (Len(argv) >= 4 /\ ~ParamsInvalid(argv)) =>
    /\ (config_space # Unbound /\ WellFormedGrid(gridFile, argv)) =>
         config_space.shape = <<Number(argv[1]), Number(argv[2])>>
    /\ fig.mesh # Unbound =>
         fig.mesh.shape = <<Number(argv[1]), Number(argv[2])>>
    /\ (Returned /\ Terminal /\ gridFile.exists /\ ~WellFormedGrid(gridFile, argv)) =>
         pc = "failed" /\ fig.mesh = Unbound /\ image.state # "new"

\* C7: a run over a path file that has a line with a number of fields other than 2
\* fails, with no overlay drawn and no image saved.
C7_WrongArityPathIsRejected ==
  (Returned /\ Terminal /\ pathFile.exists
     /\ \E i \in 1..Len(pathFile.lines) : Len(pathFile.lines[i]) # 2) =>
    /\ pc = "failed"
    /\ fig.lines = <<>>
    /\ image.state # "new"

\* C8: the solver is started at most once, with the command <executable, rows, cols,
\* robot_radius, obstacle_config>; the statements run in program order, each at
\* most once, and every statement after the call runs only once the solver has
\* exited.
Rank(step) ==
  CASE step = "argv" -> 1
    [] step = "launch" -> 2
    [] step = "exit" -> 3
    [] step = "returned" -> 4
    [] step = "checkGrid" -> 5
    [] step = "checkPath" -> 6
    [] step = "loadGrid" -> 7
    [] step = "loadPath" -> 8
    [] step = "pcolormesh" -> 9
    [] step = "plot" -> 10
    [] step = "show" -> 11
    [] step = "savefig" -> 12
C8_SolverOnceStepsInSequence ==
  /\ launches <= 1
  /\ launches = 1 => cmd = <<SAVE_BB8, argv[1], argv[2], argv[3], argv[4]>>
  /\ solver # "notStarted" => launches = 1
  /\ \A i, j \in 1..Len(trace) : i < j => Rank(trace[i]) < Rank(trace[j])
  /\ \A i \in 1..Len(trace) :
       Rank(trace[i]) > Rank("exit") => solver = "exited" /\ InTrace("exit")
  /\ pc \notin {"args", "invoke", "wait", "failed"} => solver = "exited"
C8_Witness ==
  /\ pc = "done" /\ returncode = 1 /\ launches = 1
  /\ trace = <<"argv", "launch", "exit", "returned", "checkGrid", "checkPath",
               "loadGrid", "loadPath", "pcolormesh", "plot", "show", "savefig">>

\* C9: the only step that creates or changes the image is the last one, savefig,
\* taken with no error raised, the heatmap drawn and the overlay drawn when the path
\* is not empty, and it writes the whole figure; a run that failed has not written
\* the image.
C9_ImageWrittenOnlyLast ==
  /\ [](pc = "failed" => image.state # "new")
  /\ [][image' # image =>
          /\ pc = "save" /\ pc' = "done"
          /\ error = NoError
          /\ fig.mesh = config_space /\ fig.mesh # Unbound
          /\ Size(solution_path) # 0 => Len(fig.lines) = 1
          /\ image' = SavedFigure(fig)
          /\ trace' = Append(trace, "savefig")]_vars
C9_Witness ==
  /\ pc = "failed" /\ error.at = "plot"
  /\ fig.mesh # Unbound
  /\ image = OldImage

\* C10: when the solver cannot be started, the run ends in the call with the error
\* uncaught and nothing printed, and none of the checks, reads or drawing steps is
\* taken, whatever files are present; a warning is printed only for a solver that
\* ran and exited with a non-zero code.
C10_LaunchFailureAborts ==
  /\ (~exeOk /\ pc \notin {"args", "invoke"} /\ Len(argv) >= 4) =>
       /\ pc = "failed" /\ error.type = "OSError" /\ error.at = "launch"
       /\ printed = <<>>
       /\ trace = <<"argv", "launch">>
       /\ launches = 0 /\ solver = "notStarted"
       /\ NothingRead
       /\ NothingRendered
  /\ printed # <<>> => solver = "exited" /\ returncode # 0
C10_Witness ==
  /\ ~exeOk /\ pc = "failed" /\ error.at = "launch"
  /\ gridFile = StaleGrid /\ pathFile = StalePath
  /\ WellFormedGrid(gridFile, argv) /\ WellFormedPath(pathFile)
====
